---- MODULE Spec2Model ----
(***************************************************************************)
(* Model of the request-shaping helpers of azure-storage-blob:             *)
(*   _container_client_helpers.py     (_parse_url, delete/set-tier batch   *)
(*                                     builders and their sub-request      *)
(*                                     option builders)                    *)
(*   _blob_service_client_helpers.py  (_parse_url)                         *)
(* Python strings are sequences of one-character strings; every Python     *)
(* value is a record [t, s, n] (type name, character payload, integer      *)
(* payload) so that values of different Python types can be compared.      *)
(***************************************************************************)
EXTENDS Integers, Sequences, FiniteSets, TLC

VARIABLES op, args, pc, i, reqs, kwargs, call, result, error

vars == <<op, args, pc, i, reqs, kwargs, call, result, error>>

(***************************************************************************)
(* Bounds of the explored inputs.                                          *)
(***************************************************************************)
\* longest batch handed to a builder
MaxBlobs == 2
\* number of options set in one call, counted over the call-level keyword
\* arguments and the keys of all structured items together
MaxFields == 2
\* longest host name handed to the URL parsers
MaxHostLen == 4

(***************************************************************************)
(* Python values.                                                          *)
(***************************************************************************)
None == [t |-> "NoneType", s |-> <<>>, n |-> 0]

PyStr(cs) == [t |-> "str", s |-> cs, n |-> 0]

PyInt(k) == [t |-> "int", s |-> <<>>, n |-> k]

PyBool(b) == [t |-> "bool", s |-> <<>>, n |-> IF b THEN 1 ELSE 0]

PyBytes(cs) == [t |-> "bytes", s |-> cs, n |-> 0]

Datetime(k) == [t |-> "datetime", s |-> <<>>, n |-> k]

\* azure.core.MatchConditions members (a plain Enum: every member is truthy)
MatchConditions(k) == [t |-> "MatchConditions", s |-> <<>>, n |-> k]

IfNotModified == MatchConditions(2)

IfModified == MatchConditions(3)

IfPresent == MatchConditions(4)

IfMissing == MatchConditions(5)

\* a lease client object: carries its lease id in the attribute `id`
BlobLeaseClient(cs) == [t |-> "BlobLeaseClient", s |-> cs, n |-> 0]

\* the generated LeaseAccessConditions model: attribute `lease_id`
LeaseAccessConditions(cs) == [t |-> "LeaseAccessConditions", s |-> cs, n |-> 0]

\* Python truth value of a value (the test made by `or`, `not` and `if x`)
Truthy(v) ==
  CASE v.t = "NoneType" -> FALSE
    [] v.t \in {"str", "bytes"} -> v.s # <<>>
    [] v.t \in {"int", "bool"} -> v.n # 0
    [] OTHER -> TRUE

\* a mutant of PyOr: the right operand wins when it is truthy
PyOrRightFirst(a, b) == IF Truthy(b) THEN b ELSE a

\* Python `a or b`
PyOr(a, b) == IF Truthy(a) THEN a ELSE b

\* str(n) for the small non-negative integers used as timeouts
IntToChars(k) == <<(<<"0", "1", "2", "3", "4", "5", "6", "7", "8", "9">>)[k + 1]>>

\* str(v) as used on the blob name in the request path
StrOf(v) ==
  CASE v.t = "NoneType" -> <<"N", "o", "n", "e">>
    [] v.t = "int" -> IntToChars(v.n)
    [] OTHER -> v.s

(***************************************************************************)
(* urllib.parse.quote                                                      *)
(***************************************************************************)
\* characters quote() never encodes: letters, digits and "_.-~"
AlwaysSafe ==
  {"a", "b", "c", "d", "e", "f", "g", "h", "i", "j", "k", "l", "m", "n", "o",
   "p", "q", "r", "s", "t", "u", "v", "w", "x", "y", "z",
   "A", "B", "C", "D", "E", "F", "G", "H", "N", "P", "T",
   "0", "1", "2", "3", "4", "5", "6", "7", "8", "9", "_", ".", "-", "~"}

PercentEncode(c) ==
  CASE c = " " -> <<"%", "2", "0">>
    [] c = "%" -> <<"%", "2", "5">>
    [] c = "&" -> <<"%", "2", "6">>
    [] c = "/" -> <<"%", "2", "F">>
    [] c = ":" -> <<"%", "3", "A">>
    [] c = "=" -> <<"%", "3", "D">>
    [] c = "?" -> <<"%", "3", "F">>

RECURSIVE Quote(_, _)
Quote(cs, safe) ==
  IF cs = <<>> THEN <<>>
  ELSE (IF Head(cs) \in AlwaysSafe \cup safe THEN <<Head(cs)>> ELSE PercentEncode(Head(cs)))
       \o Quote(Tail(cs), safe)

\* str.replace(old, new) for single characters
RECURSIVE Replace(_, _, _)
Replace(cs, old, new) ==
  IF cs = <<>> THEN <<>>
  ELSE <<(IF Head(cs) = old THEN new ELSE Head(cs))>> \o Replace(Tail(cs), old, new)

(***************************************************************************)
(* The inputs of one builder call.  A call is described by the kind of     *)
(* each item (a bare name or a structured record) and by a set of picks    *)
(* [pos, key, val]: position 0 holds the arguments of the call, position k *)
(* the keys of the k-th item.  What is not picked keeps its default: an    *)
(* absent keyword argument, a key the record does not have.                *)
(***************************************************************************)
Chars_a == <<"a">>

Chars_b == <<"b", " ">>

Chars_c == <<"c">>

\* a blob name in a virtual directory, with "~" and a character to encode
Chars_d == <<"d", "/", "~", "?">>

Chars_m == <<"m", " ", "y">>

Chars_sas == <<"?", "s", "i", "g", "=", "k">>

Hot == PyStr(<<"H", "o", "t">>)

Cool == PyStr(<<"C", "o", "o", "l">>)

\* keyword and positional arguments a call may set, with the values tried
CallPicks(b) ==
  {[pos |-> 0, key |-> "query_str", val |-> PyStr(Chars_sas)],
   [pos |-> 0, key |-> "container_name", val |-> PyStr(Chars_m)],
   [pos |-> 0, key |-> "timeout", val |-> PyInt(5)],
   [pos |-> 0, key |-> "raise_on_any_failure", val |-> PyBool(FALSE)],
   [pos |-> 0, key |-> "if_tags_match_condition", val |-> PyStr(<<"x">>)]}
  \cup
  (IF b = "delete_blobs"
   THEN {[pos |-> 0, key |-> "delete_snapshots", val |-> PyStr(<<"i", "n", "c", "l", "u", "d", "e">>)],
         [pos |-> 0, key |-> "if_modified_since", val |-> Datetime(1)],
         [pos |-> 0, key |-> "if_unmodified_since", val |-> Datetime(2)]}
   ELSE {[pos |-> 0, key |-> "blob_tier", val |-> Hot],
         [pos |-> 0, key |-> "rehydrate_priority", val |-> PyStr(<<"H", "i", "g", "h">>)]})

\* a bare name is only a name
NamePicks(k) ==
  {[pos |-> k, key |-> "name", val |-> PyStr(Chars_b)],
   [pos |-> k, key |-> "name", val |-> PyStr(Chars_d)]}

\* keys a structured item may carry, with the values tried
ItemPicks(b, k) ==
  {[pos |-> k, key |-> "name", val |-> PyStr(Chars_b)],
   [pos |-> k, key |-> "name", val |-> PyStr(Chars_d)],
   [pos |-> k, key |-> "name", val |-> None],
   [pos |-> k, key |-> "snapshot", val |-> PyStr(<<"s">>)],
   [pos |-> k, key |-> "snapshot", val |-> PyStr(<<>>)],
   [pos |-> k, key |-> "version_id", val |-> PyStr(<<"v">>)],
   [pos |-> k, key |-> "lease_id", val |-> PyStr(<<"l">>)],
   [pos |-> k, key |-> "if_tags_match_condition", val |-> PyStr(<<"y">>)],
   [pos |-> k, key |-> "timeout", val |-> PyInt(7)],
   [pos |-> k, key |-> "timeout", val |-> PyInt(0)]}
  \cup
  (IF b = "delete_blobs"
   THEN {[pos |-> k, key |-> "delete_snapshots", val |-> PyStr(<<"o", "n", "l", "y">>)],
         [pos |-> k, key |-> "lease_id", val |-> BlobLeaseClient(<<"l">>)],
         [pos |-> k, key |-> "if_modified_since", val |-> Datetime(3)],
         [pos |-> k, key |-> "if_unmodified_since", val |-> Datetime(4)],
         [pos |-> k, key |-> "etag", val |-> PyStr(<<"e">>)],
         [pos |-> k, key |-> "match_condition", val |-> IfModified]}
   ELSE {[pos |-> k, key |-> "blob_tier", val |-> Cool],
         [pos |-> k, key |-> "rehydrate_priority", val |-> PyStr(<<"S", "t", "d">>)]})

AllPicks(b, kinds) ==
  CallPicks(b) \cup
  UNION {IF kinds[k] = "dict" THEN ItemPicks(b, k) ELSE NamePicks(k) : k \in 1..Len(kinds)}

\* the sets of at most k picks
RECURSIVE PickSets(_, _)
PickSets(picks, k) ==
  IF k = 0 THEN {{}}
  ELSE LET prev == PickSets(picks, k - 1)
       IN prev \cup {P \cup {x} : P \in prev, x \in picks}

\* no argument and no key is given twice
Consistent(P) ==
  \A x \in P, y \in P : (x.pos = y.pos /\ x.key = y.key) => x = y

Picked(P, pos, key, default) ==
  IF \E x \in P : x.pos = pos /\ x.key = key
  THEN (CHOOSE x \in P : x.pos = pos /\ x.key = key).val
  ELSE default

\* the k-th item: blob.get(key) is the field, None for a key it lacks
MkBlob(kind, k, P) ==
  [kind |-> kind,
   name |-> Picked(P, k, "name", PyStr(Chars_a)),
   snapshot |-> Picked(P, k, "snapshot", None),
   version_id |-> Picked(P, k, "version_id", None),
   delete_snapshots |-> Picked(P, k, "delete_snapshots", None),
   lease_id |-> Picked(P, k, "lease_id", None),
   if_modified_since |-> Picked(P, k, "if_modified_since", None),
   if_unmodified_since |-> Picked(P, k, "if_unmodified_since", None),
   etag |-> Picked(P, k, "etag", None),
   match_condition |-> Picked(P, k, "match_condition", None),
   if_tags_match_condition |-> Picked(P, k, "if_tags_match_condition", None),
   timeout |-> Picked(P, k, "timeout", None),
   blob_tier |-> Picked(P, k, "blob_tier", None),
   rehydrate_priority |-> Picked(P, k, "rehydrate_priority", None)]

\* the arguments of the call; kwargs.pop(key, default) reads these fields
MkArgs(kinds, P) ==
  [query_str |-> Picked(P, 0, "query_str", PyStr(<<>>)).s,
   container_name |-> Picked(P, 0, "container_name", PyStr(Chars_c)).s,
   blob_tier |-> Picked(P, 0, "blob_tier", None),
   timeout |-> Picked(P, 0, "timeout", None),
   raise_on_any_failure |-> Picked(P, 0, "raise_on_any_failure", PyBool(TRUE)),
   delete_snapshots |-> Picked(P, 0, "delete_snapshots", None),
   if_modified_since |-> Picked(P, 0, "if_modified_since", None),
   if_unmodified_since |-> Picked(P, 0, "if_unmodified_since", None),
   if_tags_match_condition |-> Picked(P, 0, "if_tags_match_condition", None),
   rehydrate_priority |-> Picked(P, 0, "rehydrate_priority", None),
   blobs |-> [k \in 1..Len(kinds) |-> MkBlob(kinds[k], k, P)]]

(***************************************************************************)
(* Collaborators of the builders: the serializer of the generated client,  *)
(* the option helper of the blob client and the HTTP request type.         *)
(***************************************************************************)
\* client._serialize.query / client._serialize.header: render a value as text
Serialize(v, type) ==
  CASE type = "int" -> IntToChars(v.n)
    [] type = "rfc-1123" -> <<"G", "M", "T">> \o IntToChars(v.n)
    [] OTHER -> StrOf(v)

\* get_access_conditions(lease): the id of a lease client or the string itself
GetAccessConditions(lease) ==
  LET lease_id == IF lease.t = "BlobLeaseClient" THEN PyStr(lease.s) ELSE lease
  IN IF Truthy(lease_id) THEN LeaseAccessConditions(lease_id.s) ELSE None

\* get_modify_conditions(kwargs): etag and match condition become If-Match
\* or If-None-Match
GetModifyConditions(g) ==
  [if_modified_since |-> g.if_modified_since,
   if_unmodified_since |-> g.if_unmodified_since,
   if_match |-> CASE g.match_condition = IfNotModified -> g.etag
                  [] g.match_condition = IfPresent -> PyStr(<<"*">>)
                  [] OTHER -> None,
   if_none_match |-> CASE g.match_condition = IfModified -> g.etag
                       [] g.match_condition = IfMissing -> PyStr(<<"*">>)
                       [] OTHER -> None,
   if_tags |-> g.if_tags_match_condition]

\* no modified access conditions given
NoModifyConditions ==
  [if_modified_since |-> None, if_unmodified_since |-> None, if_match |-> None,
   if_none_match |-> None, if_tags |-> None]

\* _generic_delete_blob_options(**g): the keyword arguments of the sub-request
GenericDeleteBlobOptions(g) ==
  [tier |-> None,
   snapshot |-> g.snapshot,
   version_id |-> g.version_id,
   delete_snapshots |-> PyOr(g.delete_snapshots, None),
   rehydrate_priority |-> None,
   lease_access_conditions |-> GetAccessConditions(g.lease),
   modified_access_conditions |-> GetModifyConditions(g),
   if_tags |-> None,
   timeout |-> g.timeout]

\* HttpRequest(method, url, headers=headers)
HttpRequest(method, url, headers) ==
  [method |-> method, url |-> url, headers |-> headers, params |-> <<>>]

\* req.format_parameters(query_parameters): attaches the query parameters
FormatParameters(req, query_parameters) ==
  [req EXCEPT !.params = query_parameters]

\* a mutant of IfNotNone: the test is `if v` instead of `if v is not None`
IfTruthy(v, key) == IF Truthy(v) THEN {key} ELSE {}

\* {key} when the test `v is not None` passes
IfNotNone(v, key) == IF v # None THEN {key} ELSE {}

(***************************************************************************)
(* _generate_delete_blobs_subrequest_options                               *)
(***************************************************************************)
\* lease_access_conditions.lease_id when conditions are given
DeleteLeaseId(o) ==
  IF o.lease_access_conditions # None
  THEN PyStr(o.lease_access_conditions.s) ELSE None

DeleteQueryParameters(o) ==
  LET val(k) == CASE k = "snapshot" -> Serialize(o.snapshot, "str")
                  [] k = "versionid" -> Serialize(o.version_id, "str")
                  [] k = "timeout" -> Serialize(o.timeout, "int")
  IN [k \in IfNotNone(o.snapshot, "snapshot") \cup IfNotNone(o.version_id, "versionid")
          \cup IfNotNone(o.timeout, "timeout") |-> val(k)]

DeleteHeaderParameters(o) ==
  LET mac == o.modified_access_conditions
      val(k) == CASE k = "x-ms-delete-snapshots" ->
                       Serialize(o.delete_snapshots, "DeleteSnapshotsOptionType")
                  [] k = "x-ms-lease-id" -> Serialize(DeleteLeaseId(o), "str")
                  [] k = "If-Modified-Since" -> Serialize(mac.if_modified_since, "rfc-1123")
                  [] k = "If-Unmodified-Since" -> Serialize(mac.if_unmodified_since, "rfc-1123")
                  [] k = "If-Match" -> Serialize(mac.if_match, "str")
                  [] k = "If-None-Match" -> Serialize(mac.if_none_match, "str")
                  [] k = "x-ms-if-tags" -> Serialize(mac.if_tags, "str")
  IN [k \in IfNotNone(o.delete_snapshots, "x-ms-delete-snapshots")
          \cup IfNotNone(DeleteLeaseId(o), "x-ms-lease-id")
          \cup IfNotNone(mac.if_modified_since, "If-Modified-Since")
          \cup IfNotNone(mac.if_unmodified_since, "If-Unmodified-Since")
          \cup IfNotNone(mac.if_match, "If-Match")
          \cup IfNotNone(mac.if_none_match, "If-None-Match")
          \cup IfNotNone(mac.if_tags, "x-ms-if-tags") |-> val(k)]

(***************************************************************************)
(* _generate_delete_blobs_options                                          *)
(***************************************************************************)
\* a mutant: the explicit match condition of the item is ignored
MatchConditionAlwaysDefault(blob) ==
  IF Truthy(blob.etag) THEN IfNotModified ELSE None

\* blob.get('match_condition') or MatchConditions.IfNotModified
\*   if blob.get('etag') else None
MatchConditionFor(blob) ==
  IF Truthy(blob.etag) THEN PyOr(blob.match_condition, IfNotModified) ELSE None

\* the keyword arguments handed to _generic_delete_blob_options for one item
DeleteGenericArgs(a, blob) ==
  IF blob.kind # "str"
  THEN [snapshot |-> blob.snapshot,
        version_id |-> blob.version_id,
        delete_snapshots |-> PyOr(a.delete_snapshots, blob.delete_snapshots),
        lease |-> blob.lease_id,
        if_modified_since |-> PyOr(a.if_modified_since, blob.if_modified_since),
        if_unmodified_since |-> PyOr(a.if_unmodified_since, blob.if_unmodified_since),
        etag |-> blob.etag,
        if_tags_match_condition |->
          PyOr(a.if_tags_match_condition, blob.if_tags_match_condition),
        match_condition |-> MatchConditionFor(blob),
        timeout |-> blob.timeout]
  ELSE [snapshot |-> None,
        version_id |-> None,
        delete_snapshots |-> a.delete_snapshots,
        lease |-> None,
        if_modified_since |-> a.if_modified_since,
        if_unmodified_since |-> a.if_unmodified_since,
        etag |-> None,
        if_tags_match_condition |-> a.if_tags_match_condition,
        match_condition |-> None,
        timeout |-> None]

\* blob.get('name') for a record, the string itself for a bare name
BlobName(blob) == blob.name

\* a mutant of RequestPath: the blob name is put in the path as it is
RequestPathRawName(a, blob) ==
  <<"/">> \o Quote(a.container_name, {"/"}) \o <<"/">>
  \o StrOf(BlobName(blob)) \o a.query_str

\* f"/{quote(container_name)}/{quote(str(blob_name), safe='/~')}{query_str}"
RequestPath(a, blob) ==
  <<"/">> \o Quote(a.container_name, {"/"}) \o <<"/">>
  \o Quote(StrOf(BlobName(blob)), {"/", "~"}) \o a.query_str

\* kwargs.update({...}) at the head of both builders
UpdatedKwargs(a) ==
  [raise_on_any_failure |-> a.raise_on_any_failure,
   sas |-> Replace(a.query_str, "?", "&"),
   timeout |-> IF Truthy(a.timeout)
               THEN <<"&", "t", "i", "m", "e", "o", "u", "t", "=">> \o StrOf(a.timeout)
               ELSE <<>>,
   path |-> a.container_name,
   restype |-> "restype=container&"]

(***************************************************************************)
(* _generate_set_tiers_subrequest_options                                  *)
(***************************************************************************)
NoError == [type |-> "", msg |-> ""]

\* the exception the sub-request builder ends with, NoError when it returns
SetTiersSubrequestError(o) ==
  IF ~Truthy(o.tier)
  THEN [type |-> "ValueError", msg |-> "A blob tier must be specified"]
  ELSE IF Truthy(o.snapshot) /\ Truthy(o.version_id)
  THEN [type |-> "ValueError",
        msg |-> "Snapshot and version_id cannot be set at the same time"]
  ELSE IF o.lease_access_conditions # None
          /\ o.lease_access_conditions.t # "LeaseAccessConditions"
  THEN [type |-> "AttributeError", msg |-> "object has no attribute 'lease_id'"]
  ELSE NoError

\* lease_access_conditions.lease_id when conditions are given
SetTiersLeaseId(o) ==
  IF o.lease_access_conditions # None
  THEN PyStr(o.lease_access_conditions.s) ELSE None

SetTiersQueryParameters(o) ==
  LET val(k) == CASE k = "snapshot" -> Serialize(o.snapshot, "str")
                  [] k = "versionid" -> Serialize(o.version_id, "str")
                  [] k = "timeout" -> Serialize(o.timeout, "int")
                  [] k = "comp" -> Serialize(PyStr(<<"t", "i", "e", "r">>), "str")
  IN [k \in IfNotNone(o.snapshot, "snapshot") \cup IfNotNone(o.version_id, "versionid")
          \cup IfNotNone(o.timeout, "timeout") \cup {"comp"} |-> val(k)]

SetTiersHeaderParameters(o) ==
  LET val(k) == CASE k = "x-ms-access-tier" -> Serialize(o.tier, "str")
                  [] k = "x-ms-rehydrate-priority" -> Serialize(o.rehydrate_priority, "str")
                  [] k = "x-ms-lease-id" -> Serialize(SetTiersLeaseId(o), "str")
                  [] k = "x-ms-if-tags" -> Serialize(o.if_tags, "str")
  IN [k \in {"x-ms-access-tier"}
          \cup IfNotNone(o.rehydrate_priority, "x-ms-rehydrate-priority")
          \cup IfNotNone(SetTiersLeaseId(o), "x-ms-lease-id")
          \cup IfNotNone(o.if_tags, "x-ms-if-tags") |-> val(k)]

(***************************************************************************)
(* _generate_set_tiers_options                                             *)
(***************************************************************************)
\* the arguments handed to _generate_set_tiers_subrequest_options for one item
SetTiersSubrequestArgs(a, blob) ==
  IF blob.kind # "str"
  THEN [tier |-> PyOr(a.blob_tier, blob.blob_tier),
        snapshot |-> blob.snapshot,
        version_id |-> blob.version_id,
        delete_snapshots |-> None,
        rehydrate_priority |-> PyOr(a.rehydrate_priority, blob.rehydrate_priority),
        lease_access_conditions |-> blob.lease_id,
        modified_access_conditions |-> NoModifyConditions,
        if_tags |-> PyOr(a.if_tags_match_condition, blob.if_tags_match_condition),
        timeout |-> PyOr(a.timeout, blob.timeout)]
  ELSE [tier |-> a.blob_tier,
        snapshot |-> None,
        version_id |-> None,
        delete_snapshots |-> None,
        rehydrate_priority |-> a.rehydrate_priority,
        lease_access_conditions |-> None,
        modified_access_conditions |-> NoModifyConditions,
        if_tags |-> a.if_tags_match_condition,
        timeout |-> None]

(***************************************************************************)
(* State of one builder call.                                              *)
(***************************************************************************)
NoGenericArgs ==
  [snapshot |-> None, version_id |-> None, delete_snapshots |-> None, lease |-> None,
   if_modified_since |-> None, if_unmodified_since |-> None, etag |-> None,
   if_tags_match_condition |-> None, match_condition |-> None, timeout |-> None]

NoSubrequestArgs ==
  [tier |-> None, snapshot |-> None, version_id |-> None, delete_snapshots |-> None,
   rehydrate_priority |-> None, lease_access_conditions |-> None,
   modified_access_conditions |-> NoModifyConditions, if_tags |-> None,
   timeout |-> None]

\* the caller's remaining keyword arguments before kwargs.update
NoKwargs ==
  [raise_on_any_failure |-> None, sas |-> <<>>, timeout |-> <<>>, path |-> <<>>,
   restype |-> ""]

\* nothing has been returned to the caller
NoResult == [returned |-> FALSE, reqs |-> <<>>, kwargs |-> NoKwargs]

\* a mutant of AppendReq: the new request is put in front
PrependReq(rs, r) == <<r>> \o rs

\* reqs.append(req)
AppendReq(rs, r) == Append(rs, r)

\* a mutant of LoopExhausted: the return statement sits inside the loop
ReturnInsideLoop(idx, n) == idx >= 1 \/ idx = n

\* the for loop has run over every item
LoopExhausted(idx, n) == idx = n

Builders == {"delete_blobs", "set_tiers"}

Init ==
  \E b \in Builders, n \in 0..MaxBlobs :
    \E kinds \in [1..n -> {"str", "dict"}] :
      \E P \in PickSets(AllPicks(b, kinds), MaxFields) :
        /\ Consistent(P)
        /\ op = b
        /\ args = MkArgs(kinds, P)
        /\ pc = "start"
        /\ i = 0
        /\ reqs = <<>>
        /\ kwargs = NoKwargs
        /\ call = [generic |-> NoGenericArgs, sub |-> NoSubrequestArgs]
        /\ result = NoResult
        /\ error = NoError

\* lines 200-213: pop the call-level options, update kwargs, reqs = []
DeleteBlobsEnter ==
  /\ op = "delete_blobs" /\ pc = "start"
  /\ kwargs' = UpdatedKwargs(args)
  /\ reqs' = <<>>
  /\ pc' = "loop"
  /\ UNCHANGED <<op, args, i, call, result, error>>

\* lines 214-247: one pass of the loop over blobs
DeleteBlobsLoopBody ==
  /\ op = "delete_blobs" /\ pc = "loop" /\ ~LoopExhausted(i, Len(args.blobs))
  /\ LET blob == args.blobs[i + 1]
         g == DeleteGenericArgs(args, blob)
         options == GenericDeleteBlobOptions(g)
         req == HttpRequest("DELETE", RequestPath(args, blob),
                            DeleteHeaderParameters(options))
     IN /\ call' = [generic |-> g, sub |-> options]
        /\ reqs' = AppendReq(reqs, FormatParameters(req, DeleteQueryParameters(options)))
  /\ i' = i + 1
  /\ UNCHANGED <<op, args, pc, kwargs, result, error>>

\* line 249: return reqs, kwargs
DeleteBlobsReturn ==
  /\ op = "delete_blobs" /\ pc = "loop" /\ LoopExhausted(i, Len(args.blobs))
  /\ result' = [returned |-> TRUE, reqs |-> reqs, kwargs |-> kwargs]
  /\ pc' = "returned"
  /\ UNCHANGED <<op, args, i, reqs, kwargs, call, error>>

\* lines 367-378
SetTiersEnter ==
  /\ op = "set_tiers" /\ pc = "start"
  /\ kwargs' = UpdatedKwargs(args)
  /\ reqs' = <<>>
  /\ pc' = "loop"
  /\ UNCHANGED <<op, args, i, call, result, error>>

\* lines 379-404: one pass of the loop; an exception of the sub-request
\* builder leaves the function
SetTiersLoopBody ==
  /\ op = "set_tiers" /\ pc = "loop" /\ ~LoopExhausted(i, Len(args.blobs))
  /\ LET blob == args.blobs[i + 1]
         o == SetTiersSubrequestArgs(args, blob)
         e == SetTiersSubrequestError(o)
     IN /\ call' = [generic |-> NoGenericArgs, sub |-> o]
        /\ IF e # NoError
           THEN /\ error' = e
                /\ pc' = "raised"
                /\ UNCHANGED <<i, reqs>>
           ELSE /\ reqs' = AppendReq(reqs,
                     FormatParameters(HttpRequest("PUT", RequestPath(args, blob),
                                                  SetTiersHeaderParameters(o)),
                                      SetTiersQueryParameters(o)))
                /\ i' = i + 1
                /\ UNCHANGED <<pc, error>>
  /\ UNCHANGED <<op, args, kwargs, result>>

\* line 406: return reqs, kwargs
SetTiersReturn ==
  /\ op = "set_tiers" /\ pc = "loop" /\ LoopExhausted(i, Len(args.blobs))
  /\ result' = [returned |-> TRUE, reqs |-> reqs, kwargs |-> kwargs]
  /\ pc' = "returned"
  /\ UNCHANGED <<op, args, i, reqs, kwargs, call, error>>

Next ==
  \/ DeleteBlobsEnter
  \/ DeleteBlobsLoopBody
  \/ DeleteBlobsReturn
  \/ SetTiersEnter
  \/ SetTiersLoopBody
  \/ SetTiersReturn

Spec == Init /\ [][Next]_vars

(***************************************************************************)
(* Properties of the batch builders.                                       *)
(***************************************************************************)
\* a value is supplied: it is neither absent nor the empty string
Supplied(v) == v # None /\ v # PyStr(<<>>)

\* the value the precedence rule selects: the call-level value v when it is
\* supplied, else the item-level value w, else nothing
ByPrecedence(v, w) == IF Supplied(v) THEN v ELSE IF Supplied(w) THEN w ELSE None

\* the path that addresses the blob named by the k-th item
PathOfItem(k) ==
  <<"/">> \o Quote(args.container_name, {"/"}) \o <<"/">>
  \o Quote(StrOf(args.blobs[k].name), {"/", "~"}) \o args.query_str

\* C1: in both builders the requests built so far are, position by position,
\* the requests of the first items, and the returned list has one request per
\* input item, the k-th addressing the blob name of the k-th item.
C1_OrderPreserved ==
  /\ Len(reqs) = i
  /\ \A k \in 1..Len(reqs) : reqs[k].url = PathOfItem(k)
  /\ result.returned =>
       /\ Len(result.reqs) = Len(args.blobs)
       /\ \A k \in 1..Len(args.blobs) : result.reqs[k].url = PathOfItem(k)

\* C1 witness: a batch of two items with different names has been returned
C1_Witness ==
  /\ result.returned
  /\ Len(result.reqs) = 2
  /\ args.blobs[1].name # args.blobs[2].name
  /\ result.reqs[1].url # result.reqs[2].url

\* the header `key` of request r, None when the header is not sent
HeaderOf(r, key) == IF key \in DOMAIN r.headers THEN PyStr(r.headers[key]) ELSE None

\* the query parameter `key` of request r, None when it is not sent
ParamOf(r, key) == IF key \in DOMAIN r.params THEN PyStr(r.params[key]) ELSE None

\* C2: the delete-snapshots mode of every delete sub-request and the tier of
\* every set-tier sub-request is the call-level value when there is one, else
\* the item's own value, else absent.
C2_Precedence ==
  /\ op = "delete_blobs" =>
       /\ \A k \in 1..Len(reqs) :
            HeaderOf(reqs[k], "x-ms-delete-snapshots")
              = ByPrecedence(args.delete_snapshots, args.blobs[k].delete_snapshots)
       /\ i >= 1 =>
            call.generic.delete_snapshots
              = ByPrecedence(args.delete_snapshots, args.blobs[i].delete_snapshots)
  /\ op = "set_tiers" =>
       \A k \in 1..Len(reqs) :
         HeaderOf(reqs[k], "x-ms-access-tier")
           = ByPrecedence(args.blob_tier, args.blobs[k].blob_tier)

\* C2 witness: a sub-request was built for an item whose own value differs
\* from the call-level value
C2_Witness ==
  /\ Len(reqs) >= 1
  /\ \/ /\ op = "delete_blobs"
        /\ Supplied(args.delete_snapshots)
        /\ Supplied(args.blobs[1].delete_snapshots)
        /\ args.delete_snapshots # args.blobs[1].delete_snapshots
     \/ /\ op = "set_tiers"
        /\ Supplied(args.blob_tier)
        /\ Supplied(args.blobs[1].blob_tier)
        /\ args.blob_tier # args.blobs[1].blob_tier

\* the k-th item of a set-tier batch has no resolvable tier
NoTier(k) == ~Supplied(args.blob_tier) /\ ~Supplied(args.blobs[k].blob_tier)

\* the k-th item supplies both a snapshot and a version id
SnapshotAndVersion(k) ==
  Supplied(args.blobs[k].snapshot) /\ Supplied(args.blobs[k].version_id)

\* C3: a set-tier call fails with ValueError when some item has no resolvable
\* tier or supplies both a snapshot and a version id, and raises no ValueError
\* when no item does.
C3_SetTiersInvalidArgument ==
  op = "set_tiers" =>
    LET bad == {k \in 1..Len(args.blobs) : NoTier(k) \/ SnapshotAndVersion(k)}
    IN /\ (bad # {} /\ pc \in {"returned", "raised"}) =>
            (pc = "raised" /\ error.type = "ValueError")
       /\ bad = {} => ~(pc = "raised" /\ error.type = "ValueError")

\* C4: a builder returns one request per item or raises and returns nothing;
\* the requests built before a failing item never reach the caller.
C4_AllOrNothing ==
  /\ result.returned =>
       (pc = "returned" /\ error = NoError /\ Len(result.reqs) = Len(args.blobs))
  /\ ~result.returned => result = NoResult
  /\ pc = "raised" => (~result.returned /\ error # NoError)

\* C4 witness: the second item failed after a request was built for the first
C4_Witness ==
  /\ pc = "raised"
  /\ Len(reqs) >= 1
  /\ result = NoResult

\* C5: the timeout query parameter of every sub-request is the call-level
\* timeout when there is one, else the item's timeout, else it is omitted.
C5_TimeoutPrecedence ==
  \A k \in 1..Len(reqs) :
    LET t == IF args.timeout # None THEN args.timeout ELSE args.blobs[k].timeout
    IN ParamOf(reqs[k], "timeout") = (IF t = None THEN None ELSE PyStr(IntToChars(t.n)))

\* C8: in the delete builder an item with an etag passes on its explicit
\* match condition, and IfNotModified when it gives none.
C8_MatchCondition ==
  (op = "delete_blobs" /\ i >= 1 /\ Supplied(args.blobs[i].etag)) =>
    call.generic.match_condition
      = (IF args.blobs[i].match_condition # None
         THEN args.blobs[i].match_condition ELSE IfNotModified)

\* C8 witness: an item with an etag and no match condition was processed
C8_Witness ==
  /\ op = "delete_blobs" /\ i >= 1
  /\ Supplied(args.blobs[i].etag)
  /\ args.blobs[i].match_condition = None
  /\ call.generic.match_condition = IfNotModified
  /\ HeaderOf(reqs[i], "If-Match") = args.blobs[i].etag

\* the optional fields of the sub-request built last (no item has failed
\* since) and the values they come from
OptionalFields(o) ==
  {<<ParamOf(reqs[i], "snapshot"), o.snapshot>>,
   <<ParamOf(reqs[i], "versionid"), o.version_id>>,
   <<ParamOf(reqs[i], "timeout"), o.timeout>>,
   <<HeaderOf(reqs[i], "x-ms-delete-snapshots"), o.delete_snapshots>>,
   <<HeaderOf(reqs[i], "x-ms-lease-id"),
     IF o.lease_access_conditions = None THEN None
     ELSE PyStr(o.lease_access_conditions.s)>>,
   <<HeaderOf(reqs[i], "If-Modified-Since"), o.modified_access_conditions.if_modified_since>>,
   <<HeaderOf(reqs[i], "If-Unmodified-Since"), o.modified_access_conditions.if_unmodified_since>>,
   <<HeaderOf(reqs[i], "If-Match"), o.modified_access_conditions.if_match>>,
   <<HeaderOf(reqs[i], "If-None-Match"), o.modified_access_conditions.if_none_match>>,
   <<HeaderOf(reqs[i], "x-ms-rehydrate-priority"), o.rehydrate_priority>>,
   <<HeaderOf(reqs[i], "x-ms-if-tags"),
     IF op = "delete_blobs" THEN o.modified_access_conditions.if_tags ELSE o.if_tags>>}

\* C9: in every sub-request an optional query parameter or header is sent
\* exactly when its source value is supplied, never with an empty value, and
\* a set-tier request always carries comp=tier and x-ms-access-tier.
C9_PresentIffSupplied ==
  (i >= 1 /\ pc # "raised") =>
    /\ \A f \in OptionalFields(call.sub) :
         /\ (f[1] # None) <=> Supplied(f[2])
         /\ f[1] # PyStr(<<>>)
    /\ op = "set_tiers" =>
         /\ ParamOf(reqs[i], "comp") = PyStr(<<"t", "i", "e", "r">>)
         /\ Supplied(HeaderOf(reqs[i], "x-ms-access-tier"))

\* C9 as amended: in every sub-request an optional query parameter or header
\* is sent exactly when the value handed to the sub-request option builder is
\* not None, and then carries that value as rendered by the serializer (an
\* empty string is sent as an empty value); a set-tier request always carries
\* comp=tier and a non-empty x-ms-access-tier.
C9_PresentIffNotNone ==
  (i >= 1 /\ pc # "raised") =>
    /\ \A f \in OptionalFields(call.sub) : (f[1] # None) <=> (f[2] # None)
    /\ ParamOf(reqs[i], "snapshot") = call.sub.snapshot
    /\ ParamOf(reqs[i], "versionid") = call.sub.version_id
    /\ call.sub.timeout # None =>
         ParamOf(reqs[i], "timeout") = PyStr(IntToChars(call.sub.timeout.n))
    /\ op = "set_tiers" =>
         /\ ParamOf(reqs[i], "comp") = PyStr(<<"t", "i", "e", "r">>)
         /\ Supplied(HeaderOf(reqs[i], "x-ms-access-tier"))
         /\ HeaderOf(reqs[i], "x-ms-access-tier") = call.sub.tier

\* C9 witness: a set-tier sub-request was built from an item whose snapshot is
\* the empty string, and carries an empty snapshot parameter
C9_Witness ==
  /\ op = "set_tiers" /\ i >= 1 /\ pc # "raised"
  /\ args.blobs[i].snapshot = PyStr(<<>>)
  /\ ParamOf(reqs[i], "snapshot") = PyStr(<<>>)
  /\ ParamOf(reqs[i], "versionid") = None

\* the lease id the k-th item supplies
LeaseIdOf(k) ==
  LET l == args.blobs[k].lease_id
  IN IF l.t = "BlobLeaseClient" THEN PyStr(l.s) ELSE l

\* C10: a set-tier item that supplies a lease id, has a resolvable tier and
\* not both snapshot and version id raises no error and is built into a PUT
\* request whose x-ms-lease-id header carries the lease id.
C10_SetTiersLease ==
  op = "set_tiers" =>
    \A k \in 1..Len(args.blobs) :
      (Supplied(LeaseIdOf(k)) /\ ~NoTier(k) /\ ~SnapshotAndVersion(k)) =>
        /\ ~(pc = "raised" /\ i = k - 1)
        /\ k <= Len(reqs) =>
             /\ reqs[k].method = "PUT"
             /\ HeaderOf(reqs[k], "x-ms-lease-id") = LeaseIdOf(k)

\* the percent-encoded form of the names tried, written out
Encoded(cs) ==
  CASE cs = Chars_a -> <<"a">>
    [] cs = Chars_b -> <<"b", "%", "2", "0">>
    [] cs = Chars_c -> <<"c">>
    [] cs = Chars_d -> <<"d", "/", "~", "%", "3", "F">>
    [] cs = Chars_m -> <<"m", "%", "2", "0", "y">>

\* C11: for every item that has a name, in both builders, the request path
\* is "/" + the percent-encoded container name + "/" + the percent-encoded
\* blob name ("/" and "~" kept) + the query string as given, and the method
\* is DELETE in the delete builder and PUT in the set-tier builder.
C11_PathAndMethod ==
  \A k \in 1..Len(reqs) :
    /\ reqs[k].method = (IF op = "delete_blobs" THEN "DELETE" ELSE "PUT")
    /\ args.blobs[k].name # None =>
         reqs[k].url = <<"/">> \o Encoded(args.container_name) \o <<"/">>
                       \o Encoded(args.blobs[k].name.s) \o args.query_str

\* C11 witness: a bare name and a record with a snapshot, under a query
\* string with a signature, were returned as two DELETE requests with the
\* same kind of path, only the second carrying a snapshot parameter
C11_Witness ==
  /\ op = "delete_blobs" /\ result.returned /\ Len(result.reqs) = 2
  /\ args.query_str = Chars_sas
  /\ args.blobs[1].kind = "str" /\ args.blobs[2].kind = "dict"
  /\ result.reqs[1].method = "DELETE" /\ result.reqs[2].method = "DELETE"
  /\ result.reqs[1].url = <<"/", "c", "/", "a", "?", "s", "i", "g", "=", "k">>
  /\ result.reqs[2].url = <<"/", "c", "/", "a", "?", "s", "i", "g", "=", "k">>
  /\ ParamOf(result.reqs[1], "snapshot") = None
  /\ ParamOf(result.reqs[2], "snapshot") = PyStr(<<"s">>)

\* C11 witness for the characters: a name with "/", "~" and "?" was built
\* into a request under a container name with a space
C11_WitnessEncoded ==
  /\ Len(reqs) >= 1
  /\ args.blobs[1].name = PyStr(Chars_d) /\ args.container_name = Chars_m
  /\ reqs[1].url = <<"/", "m", "%", "2", "0", "y", "/", "d", "/", "~", "%", "3", "F">>

(***************************************************************************)
(* _parse_url, in the service client and in the container client.          *)
(***************************************************************************)
LowerChar(c) ==
  CASE c = "H" -> "h" [] c = "T" -> "t" [] c = "P" -> "p" [] c = "S" -> "s"
    [] OTHER -> c

\* str.lower() and bytes.lower()
Lower(cs) == [j \in 1..Len(cs) |-> LowerChar(cs[j])]

\* str.startswith(prefix)
StartsWith(cs, prefix) ==
  Len(cs) >= Len(prefix) /\ SubSeq(cs, 1, Len(prefix)) = prefix

\* str.rstrip('/')
RECURSIVE RStripSlash(_)
RStripSlash(cs) ==
  IF cs # <<>> /\ cs[Len(cs)] = "/" THEN RStripSlash(SubSeq(cs, 1, Len(cs) - 1)) ELSE cs

\* the first index after `from` at which cs holds a character of `set`,
\* Len(cs) + 1 when there is none
RECURSIVE Find(_, _, _)
Find(cs, set, from) ==
  IF from > Len(cs) THEN Len(cs) + 1
  ELSE IF cs[from] \in set THEN from
  ELSE Find(cs, set, from + 1)

\* characters urllib accepts in a scheme
SchemeChars == (AlwaysSafe \ {"_", "~"}) \cup {"+"}

\* urllib.parse.urlparse(url)
UrlParse(url) ==
  LET colon == Find(url, {":"}, 1)
      hasScheme == /\ colon > 1 /\ colon <= Len(url)
                   /\ \A j \in 1..(colon - 1) : url[j] \in SchemeChars
      rest == IF hasScheme THEN SubSeq(url, colon + 1, Len(url)) ELSE url
      hasNetloc == StartsWith(rest, <<"/", "/">>)
      delim == Find(rest, {"/", "?", "#"}, 3)
      afterNetloc == IF hasNetloc THEN SubSeq(rest, delim, Len(rest)) ELSE rest
      hash == Find(afterNetloc, {"#"}, 1)
      beforeHash == SubSeq(afterNetloc, 1, hash - 1)
      mark == Find(beforeHash, {"?"}, 1)
  IN [scheme |-> IF hasScheme THEN Lower(SubSeq(url, 1, colon - 1)) ELSE <<>>,
      netloc |-> IF hasNetloc THEN SubSeq(rest, 3, delim - 1) ELSE <<>>,
      path |-> SubSeq(beforeHash, 1, mark - 1),
      query |-> SubSeq(beforeHash, mark + 1, Len(beforeHash)),
      fragment |-> SubSeq(afterNetloc, hash + 1, Len(afterNetloc))]

\* str.split(sep) for a one-character separator
RECURSIVE Split(_, _)
Split(cs, sep) ==
  LET at == Find(cs, {sep}, 1)
  IN IF at > Len(cs) THEN <<cs>>
     ELSE <<SubSeq(cs, 1, at - 1)>> \o Split(SubSeq(cs, at + 1, Len(cs)), sep)

\* query keys that belong to a shared access signature
SasKeys == {<<"s", "i", "g">>, <<"s", "v">>, <<"s", "e">>, <<"s", "p">>}

\* "&".join(parts)
RECURSIVE JoinAmp(_)
JoinAmp(parts) ==
  IF parts = <<>> THEN <<>>
  ELSE IF Len(parts) = 1 THEN parts[1]
  ELSE parts[1] \o <<"&">> \o JoinAmp(Tail(parts))

\* parse_query(query)[1]: the shared access signature parameters of the
\* query string, re-encoded and joined, None when there are none
ParseQuery(query) ==
  LET pairs == Split(query, "&")
      key(p) == SubSeq(p, 1, Find(p, {"="}, 1) - 1)
      value(p) == SubSeq(p, Find(p, {"="}, 1) + 1, Len(p))
      IsSas(p) == key(p) \in SasKeys /\ value(p) # <<>>
      sas == SelectSeq(pairs, IsSas)
      enc == [j \in 1..Len(sas) |-> key(sas[j]) \o <<"=">> \o Quote(value(sas[j]), {})]
  IN IF sas = <<>> THEN None ELSE PyStr(JoinAmp(enc))

NoParsedUrl ==
  [scheme |-> <<>>, netloc |-> <<>>, path |-> <<>>, query |-> <<>>, fragment |-> <<>>]

\* the URL handed to urlparse: "https://" is put in front unless the text
\* starts with the letters http in any case
WithDefaultScheme(cs) ==
  IF ~StartsWith(Lower(cs), <<"h", "t", "t", "p">>)
  THEN <<"h", "t", "t", "p", "s", ":", "/", "/">> \o cs ELSE cs

\* lines 22-26 (service) and 34-38 (container): the exception of the try
\* block.  A value without lower() raises AttributeError, which is turned
\* into ValueError; bytes has lower(), and bytes.startswith('http') raises
\* TypeError, which is not caught.
SchemeDefaultingError(account_url, what) ==
  CASE account_url.t = "str" -> NoError
    [] account_url.t = "bytes" ->
         [type |-> "TypeError",
          msg |-> "startswith first arg must be bytes or a tuple of bytes, not str"]
    [] OTHER -> [type |-> "ValueError", msg |-> what]

\* _parse_url(account_url) of the service client: [error, parsed_url, sas_token]
ServiceParseUrlResult(account_url) ==
  LET e == SchemeDefaultingError(account_url, "Account URL must be a string.")
      parsed_url == UrlParse(RStripSlash(WithDefaultScheme(account_url.s)))
  IN IF e # NoError
     THEN [error |-> e, parsed_url |-> NoParsedUrl, sas_token |-> None]
     ELSE IF parsed_url.netloc = <<>>
     THEN [error |-> [type |-> "ValueError", msg |-> "Invalid URL"],
           parsed_url |-> NoParsedUrl, sas_token |-> None]
     ELSE [error |-> NoError, parsed_url |-> parsed_url,
           sas_token |-> ParseQuery(parsed_url.query)]

\* _parse_url(account_url, container_name) of the container client
ContainerParseUrlResult(account_url, container_name) ==
  LET e == SchemeDefaultingError(account_url, "Container URL must be a string.")
      parsed_url == UrlParse(RStripSlash(WithDefaultScheme(account_url.s)))
  IN IF e # NoError
     THEN [error |-> e, parsed_url |-> NoParsedUrl, sas_token |-> None]
     ELSE IF ~Truthy(container_name)
     THEN [error |-> [type |-> "ValueError", msg |-> "Please specify a container name."],
           parsed_url |-> NoParsedUrl, sas_token |-> None]
     ELSE IF parsed_url.netloc = <<>>
     THEN [error |-> [type |-> "ValueError", msg |-> "Invalid URL"],
           parsed_url |-> NoParsedUrl, sas_token |-> None]
     ELSE [error |-> NoError, parsed_url |-> parsed_url,
           sas_token |-> ParseQuery(parsed_url.query)]

(***************************************************************************)
(* The inputs of one _parse_url call: a text put together from a scheme    *)
(* prefix, a host, a path and a query, as str or as bytes, or a value that *)
(* is no text at all.                                                      *)
(***************************************************************************)
HostAlphabet == {"h", "t", "p", "a"}

\* the host names of at most n characters, the empty one included
RECURSIVE Hosts(_)
Hosts(n) ==
  IF n = 0 THEN {<<>>}
  ELSE Hosts(n - 1) \cup {Append(h, c) : h \in Hosts(n - 1), c \in HostAlphabet}

SchemePrefixes ==
  {<<>>, <<"h", "t", "t", "p", ":", "/", "/">>,
   <<"h", "t", "t", "p", "s", ":", "/", "/">>,
   <<"H", "T", "T", "P", "S", ":", "/", "/">>}

UrlPaths == {<<>>, <<"/">>, <<"/", "c">>, <<"/", "c", "/">>}

UrlQueries == {<<>>, Chars_sas, <<"?", "x", "=", "1", "&", "s", "v", "=", "2">>}

ContainerNames == {None, PyStr(<<>>), PyStr(Chars_c)}

NoUrlResult == [returned |-> FALSE, parsed_url |-> NoParsedUrl, sas_token |-> None]

InitUrl ==
  \E o \in {"service", "container"} :
    \E prefix \in SchemePrefixes, host \in Hosts(MaxHostLen), path \in UrlPaths,
       query \in UrlQueries, type \in {"str", "bytes", "NoneType", "int"} :
      \E cn \in (IF o = "container" THEN ContainerNames ELSE {None}) :
        /\ type \in {"NoneType", "int"} =>
             (prefix = <<>> /\ host = <<>> /\ path = <<>> /\ query = <<>>)
        /\ op = o
        /\ args = [account_url |->
                     CASE type = "str" -> PyStr(prefix \o host \o path \o query)
                       [] type = "bytes" -> PyBytes(prefix \o host \o path \o query)
                       [] type = "int" -> PyInt(5)
                       [] OTHER -> None,
                   container_name |-> cn,
                   prefix |-> prefix, host |-> host, path |-> path, query |-> query]
        /\ pc = "start"
        /\ result = NoUrlResult
        /\ error = NoError
        /\ i = 0
        /\ reqs = <<>>
        /\ kwargs = NoKwargs
        /\ call = [generic |-> NoGenericArgs, sub |-> NoSubrequestArgs]

\* _blob_service_client_helpers._parse_url
ServiceParseUrl ==
  /\ op = "service" /\ pc = "start"
  /\ LET r == ServiceParseUrlResult(args.account_url)
     IN /\ error' = r.error
        /\ pc' = IF r.error = NoError THEN "returned" ELSE "raised"
        /\ result' = [returned |-> r.error = NoError, parsed_url |-> r.parsed_url,
                      sas_token |-> r.sas_token]
  /\ UNCHANGED <<op, args, i, reqs, kwargs, call>>

\* _container_client_helpers._parse_url
ContainerParseUrl ==
  /\ op = "container" /\ pc = "start"
  /\ LET r == ContainerParseUrlResult(args.account_url, args.container_name)
     IN /\ error' = r.error
        /\ pc' = IF r.error = NoError THEN "returned" ELSE "raised"
        /\ result' = [returned |-> r.error = NoError, parsed_url |-> r.parsed_url,
                      sas_token |-> r.sas_token]
  /\ UNCHANGED <<op, args, i, reqs, kwargs, call>>

NextUrl ==
  \/ ServiceParseUrl
  \/ ContainerParseUrl

SpecUrl == InitUrl /\ [][NextUrl]_vars

(***************************************************************************)
(* Properties of the URL parsers.                                          *)
(***************************************************************************)
\* C6: for a text without a scheme whose host is not empty (and, in the
\* container variant, with a container name) the parser returns a result
\* whose scheme is https and whose host is the host of the input.
C6_DefaultsToHttps ==
  (/\ pc # "start"
   /\ args.account_url.t = "str"
   /\ args.prefix = <<>> /\ args.host # <<>>
   /\ op = "container" => Supplied(args.container_name)) =>
    /\ pc = "returned"
    /\ result.parsed_url.scheme = <<"h", "t", "t", "p", "s">>
    /\ result.parsed_url.netloc = args.host

\* the URL has no host once the scheme is defaulted and trailing slashes
\* are stripped
NoHostComponent ==
  UrlParse(RStripSlash(WithDefaultScheme(args.account_url.s))).netloc = <<>>

\* C7: the parser fails with ValueError, and with no other error, exactly
\* when the identifier is no string, when the URL has no host component, or
\* when the container variant gets no container name; otherwise it returns.
C7_OnlyInvalidArgument ==
  pc # "start" =>
    LET mustFail == \/ args.account_url.t # "str"
                    \/ NoHostComponent
                    \/ (op = "container" /\ ~Supplied(args.container_name))
    IN /\ mustFail => (pc = "raised" /\ error.type = "ValueError")
       /\ ~mustFail => (pc = "returned" /\ error = NoError /\ result.returned)

====
